---- MODULE Spec2Model ----
(***************************************************************************)
(* Balanced random cropping and train/test split construction of          *)
(* src/random_sampling.py.                                                 *)
(*                                                                         *)
(* A spectrogram matrix is represented by its time axis: the sequence of  *)
(* its column numbers 0 .. L-1 (the frequency axis is never cut).  A crop  *)
(* is the sequence of the column numbers it covers.  A persisted artifact  *)
(* "D<id>.npz" / "N<id>.npz" is the pair <<prefix, id>>; the directory     *)
(* maps each artifact to the ordered list of its entries.                  *)
(***************************************************************************)
EXTENDS Integers, Sequences, FiniteSets, TLC

\* ------------------------------------------------------------------ bounds
MaxFiles == 10       \* D- and N-prefixed artifacts of a directory given as input
MaxCrops == 2        \* entries per artifact of a directory given as input
MaxLen == 5          \* time length of a matrix passed to get_random_samples
MaxCropWidth == 2    \* crop_width
MaxClipLen == 3      \* time length of a participant's matrix in a class dictionary
ReproClipLen == 2    \* the same, for the corpus of the repeated pipeline run

\* ------------------------------------------------------- program constants
TestSizePercent == 20    \* test_size = 0.2
Seed == 15               \* np.random.seed(15)

\* Participant ids of the two class dictionaries; id 2 may occur in both.
DepIds == {1, 2}
NormIds == {2, 3}

VARIABLES
    depressed_dict,      \* participant id -> matrix
    normal_dict,         \* participant id -> matrix
    crop_width,
    matrix,              \* argument of a direct call of get_random_samples
    n_samples,           \* requested crops per participant
    num_samples_from_clips, \* value returned by determine_num_crops
    samples,             \* value returned by get_random_samples
    npz_file_dir,        \* directory: file name -> ordered list of its entries
    dep_select_samps,    \* np.random.choice(dep_samps, ...)
    norm_select_samps,   \* np.random.choice(norm_samps, ...)
    train_files,         \* files opened by the two train loops, in order
    test_files,          \* files opened by the two test loops, in order
    train_samples,
    train_labels,
    test_samples,
    test_labels,
    call,                \* the function called last
    pc,                  \* "start", or how far the calls got, or "raised"
    error,               \* the exception raised, "none" otherwise
    np_seed,             \* seed of numpy's global generator in this process
    run,                 \* 1 in the first process, 2 in the repeated one
    first_run            \* what the first process drew and wrote

vars == <<depressed_dict, normal_dict, crop_width, matrix, n_samples,
          num_samples_from_clips, samples, npz_file_dir, dep_select_samps,
          norm_select_samps, train_files, test_files, train_samples,
          train_labels, test_samples, test_labels, call, pc, error, np_seed,
          run, first_run>>

corpus_vars == <<depressed_dict, normal_dict, crop_width>>
sample_vars == <<matrix, samples>>
split_vars == <<dep_select_samps, norm_select_samps, train_files, test_files,
                train_samples, train_labels, test_samples, test_labels>>
process_vars == <<np_seed, run, first_run>>

\* ----------------------------------------------------------------- helpers
Min(a, b) == IF a < b THEN a ELSE b
Max(a, b) == IF a > b THEN a ELSE b

Range(s) == {s[i] : i \in 1..Len(s)}

\* A file name is <<prefix, id>>: "D7.npz" is <<"D", 7>>.
StartsWith(f, prefix) == f[1] = prefix

\* os.listdir(npz_file_dir)
ListDir(dir) == DOMAIN dir

\* Python's slice index adjustment: a negative index counts from the end,
\* every index is clamped to 0 .. len.  -0 is 0.
PyIndex(i, len) == IF i < 0 THEN Max(len + i, 0) ELSE Min(i, len)

\* s[:stop]
SliceTo(s, stop) == SubSeq(s, 1, PyIndex(stop, Len(s)))

\* s[start:]
SliceFrom(s, start) == SubSeq(s, PyIndex(start, Len(s)) + 1, Len(s))

\* np.random.choice(a, size=size, replace=False): every ordered selection of
\* size distinct elements of a (none when size exceeds the population).
RECURSIVE Choice(_, _)
Choice(a, size) ==
    IF size = 0 THEN {<<>>}
    ELSE UNION {{<<x>> \o s : s \in Choice(a \ {x}, size - 1)} : x \in a}

\* int(n * test_size)
NumTestSamples(n) == (n * TestSizePercent) \div 100

\* select[:-num_test_samples]
TrainPart(select, num_test_samples) == SliceTo(select, 0 - num_test_samples)

TestPartOverlap(select, num_test_samples) ==
    SliceFrom(select, 0 - (num_test_samples + 1))

\* select[-num_test_samples:]
TestPart(select, num_test_samples) == SliceFrom(select, 0 - num_test_samples)

\* for sample in select: with np.load(...) as data: for key in data.keys():
\*     samples.append(data[key])
RECURSIVE LoadAll(_, _)
LoadAll(dir, select) ==
    IF select = <<>> THEN <<>>
    ELSE dir[Head(select)] \o LoadAll(dir, Tail(select))

Ones(n) == [i \in 1..n |-> 1]
Zeros(n) == [i \in 1..n |-> 0]

LabelsRoundedUp(ls) ==
    Ones(Len(ls) \div 2) \o Zeros(Len(ls) - Len(ls) \div 2)

LabelsSwapped(ls) ==
    Zeros(Len(ls) \div 2) \o Ones(Len(ls) \div 2)

\* np.concatenate((np.ones(len(samples) // 2), np.zeros(len(samples) // 2)))
Labels(ls) ==
    Ones(Len(ls) \div 2) \o Zeros(Len(ls) \div 2)

\* ------------------------------------------------------ determine_num_crops
\* The matrix of time length L: its columns 0 .. L-1.
Columns(L) == [i \in 1..L |-> i - 1]

\* matrix.shape[1]
Shape1(m) == Len(m)

\* {**normal_dict, **depressed_dict}: on a key of both, the later one wins.
MergedDict(normal, depressed) ==
    [id \in (DOMAIN normal) \cup (DOMAIN depressed) |->
        IF id \in DOMAIN depressed THEN depressed[id] ELSE normal[id]]

\* min(merged_dict.items(), key=lambda x: x[1].shape[1])[1].shape[1]
ShortestPixelWidth(merged_dict) ==
    CHOOSE w \in {Shape1(merged_dict[id]) : id \in DOMAIN merged_dict} :
        \A id \in DOMAIN merged_dict : w <= Shape1(merged_dict[id])

\* The value determine_num_crops returns when min() has something to take.
DetermineNumCrops(depressed, normal, width) ==
    ShortestPixelWidth(MergedDict(normal, depressed)) \div width

\* ------------------------------------------------------- get_random_samples
ClippedMatRightTrim(m, width) ==
    SubSeq(m, 1, Shape1(m) - (Shape1(m) % width))

\* matrix[:, (matrix.shape[1] % crop_width):]
ClippedMat(m, width) == SubSeq(m, (Shape1(m) % width) + 1, Shape1(m))

\* clipped_mat.shape[1] / crop_width, a float with an integral value
NSplits(m, width) == Shape1(ClippedMat(m, width)) \div width

\* np.split(clipped_mat, n_splits, axis=1) for n_splits > 0 dividing the width:
\* n_splits contiguous pieces of equal width.
CroppedSampleLs(m, width) ==
    LET clipped_mat == ClippedMat(m, width)
        n_splits == NSplits(m, width)
        each == Shape1(clipped_mat) \div n_splits
    IN [j \in 1..n_splits |-> SubSeq(clipped_mat, (j - 1) * each + 1, j * each)]

\* random.sample(population, k): every ordered selection of k distinct positions.
RandomSample(population, k) ==
    {[i \in 1..k |-> population[sel[i]]] : sel \in Choice(1..Len(population), k)}

\* The exception get_random_samples raises, "none" when it returns:
\* np.split evaluates N % 0.0 when the clipped matrix is empty; random.sample
\* rejects a negative k and one beyond the population.
SampleError(m, n, width) ==
    IF NSplits(m, width) = 0 THEN "ZeroDivisionError"
    ELSE IF n < 0 \/ n > NSplits(m, width) THEN "ValueError"
    ELSE "none"

\* The values get_random_samples can return.
GetRandomSamples(m, n, width) == RandomSample(CroppedSampleLs(m, width), n)

\* --------------------------------------------------- build_class_sample_dict
\* The exceptions the loop over the class can end with.
ClassErrors(segmented_audio_dict, n, width) ==
    {SampleError(segmented_audio_dict[id], n, width) :
        id \in DOMAIN segmented_audio_dict} \ {"none"}

\* The dictionaries build_class_sample_dict can return.
RECURSIVE BuildClassSampleDict(_, _, _)
BuildClassSampleDict(segmented_audio_dict, n, width) ==
    IF DOMAIN segmented_audio_dict = {} THEN {<<>>}
    ELSE LET partic_id == CHOOSE x \in DOMAIN segmented_audio_dict : TRUE
             others == [x \in DOMAIN segmented_audio_dict \ {partic_id} |->
                           segmented_audio_dict[x]]
         IN {[x \in DOMAIN segmented_audio_dict |->
                 IF x = partic_id THEN s ELSE r[x]] :
               s \in GetRandomSamples(segmented_audio_dict[partic_id], n, width),
               r \in BuildClassSampleDict(others, n, width)}

\* np.savez(os.path.join(path, f"D{key}.npz"), *values) for every key, then the
\* same with the prefix N: a file of that name is overwritten.
SaveSamples(dir, depressed_samples, normal_samples) ==
    LET written == {<<"D", k>> : k \in DOMAIN depressed_samples}
                     \cup {<<"N", k>> : k \in DOMAIN normal_samples}
    IN [f \in (DOMAIN dir) \cup written |->
          IF f \in written
          THEN (IF f[1] = "D" THEN depressed_samples[f[2]]
                ELSE normal_samples[f[2]])
          ELSE dir[f]]

\* ---------------------------------------------------------------- inputs
\* The class dictionaries over the ids, matrices of time length 1 .. maxlen.
ClassDicts(ids, maxlen) ==
    UNION {[s -> {Columns(L) : L \in 1..maxlen}] : s \in SUBSET ids}

\* d depressed and n normal artifacts of c entries each, entry j of file f
\* being <<f, j>>; with uneven, D1 holds one entry more (taken with c = 1
\* only).  The directory also
\* holds "train_samples.npz", <<"t", 1>>, which an earlier run of the script
\* wrote there.
Entries(f, k) == [j \in 1..k |-> <<f, j>>]

Directory(d, n, c, uneven) ==
    LET names == {<<"D", i>> : i \in 1..d} \cup {<<"N", i>> : i \in 1..n}
                 \cup {<<"t", 1>>}
    IN [f \in names |->
          IF f = <<"t", 1>> THEN Entries(f, 1)
          ELSE IF uneven /\ f = <<"D", 1>> THEN Entries(f, c + 1)
          ELSE Entries(f, c)]

NoRun == [seed |-> 0 - 1, choice |-> <<>>, out |-> <<>>]

Idle ==
    /\ matrix = <<>>
    /\ n_samples = 0
    /\ num_samples_from_clips = 0
    /\ samples = <<>>
    /\ dep_select_samps = <<>>
    /\ norm_select_samps = <<>>
    /\ train_files = <<>>
    /\ test_files = <<>>
    /\ train_samples = <<>>
    /\ train_labels = <<>>
    /\ test_samples = <<>>
    /\ test_labels = <<>>
    /\ call = "none"
    /\ error = "none"
    /\ np_seed = Seed
    /\ run = 1
    /\ first_run = NoRun

\* A directory of persisted artifacts, rand_samp_train_test_split not yet called.
InitSplit ==
    /\ \E d \in 0..MaxFiles, n \in 0..MaxFiles, c \in 1..MaxCrops,
          u \in BOOLEAN :
           /\ d + n <= MaxFiles
           /\ u => c = 1
           /\ npz_file_dir = Directory(d, n, c, u)
    /\ depressed_dict = <<>>
    /\ normal_dict = <<>>
    /\ crop_width = 1
    /\ pc = "created"
    /\ Idle

\* Two class dictionaries and a crop width, nothing called yet.
InitCorpus(maxlen) ==
    /\ depressed_dict \in ClassDicts(DepIds, maxlen)
    /\ normal_dict \in ClassDicts(NormIds, maxlen)
    /\ crop_width \in 1..MaxCropWidth
    /\ npz_file_dir = <<>>
    /\ pc = "start"
    /\ Idle

InitCrops == InitCorpus(MaxClipLen)

InitRepro == InitCorpus(ReproClipLen)

\* A matrix, a crop width and a requested number of crops.
InitSample ==
    /\ \E L \in 1..MaxLen, w \in 1..MaxCropWidth, n \in 0..MaxLen :
          /\ matrix = Columns(L)
          /\ crop_width = w
          /\ n_samples = n
    /\ depressed_dict = <<>>
    /\ normal_dict = <<>>
    /\ num_samples_from_clips = 0
    /\ samples = <<>>
    /\ npz_file_dir = <<>>
    /\ dep_select_samps = <<>>
    /\ norm_select_samps = <<>>
    /\ train_files = <<>>
    /\ test_files = <<>>
    /\ train_samples = <<>>
    /\ train_labels = <<>>
    /\ test_samples = <<>>
    /\ test_labels = <<>>
    /\ call = "none"
    /\ pc = "start"
    /\ error = "none"
    /\ np_seed = Seed
    /\ run = 1
    /\ first_run = NoRun

\* ------------------------------------------------------------------ actions
\* determine_num_crops(depressed_dict, normal_dict, crop_width)
CallDetermineNumCrops ==
    /\ pc = "start"
    /\ call' = "determine_num_crops"
    /\ IF DOMAIN MergedDict(normal_dict, depressed_dict) = {}
       THEN /\ pc' = "raised"
            /\ error' = "ValueError"
            /\ UNCHANGED num_samples_from_clips
       ELSE /\ pc' = "determined"
            /\ num_samples_from_clips' =
                   DetermineNumCrops(depressed_dict, normal_dict, crop_width)
            /\ UNCHANGED error
    /\ UNCHANGED <<corpus_vars, sample_vars, split_vars, process_vars,
                   n_samples, npz_file_dir>>

\* get_random_samples(matrix, n_samples, crop_width)
CallGetRandomSamples ==
    /\ pc = "start"
    /\ call' = "get_random_samples"
    /\ IF SampleError(matrix, n_samples, crop_width) # "none"
       THEN /\ pc' = "raised"
            /\ error' = SampleError(matrix, n_samples, crop_width)
            /\ UNCHANGED samples
       ELSE /\ pc' = "sampled"
            /\ samples' \in GetRandomSamples(matrix, n_samples, crop_width)
            /\ UNCHANGED error
    /\ UNCHANGED <<corpus_vars, matrix, split_vars, process_vars, n_samples,
                   num_samples_from_clips, npz_file_dir>>

\* create_sample_dicts(crop_width), build_class_dictionaries having returned
\* depressed_dict and normal_dict.  The depressed class is sampled first; a
\* class whose loop raises ends the call before anything is saved.
CreateSampleDicts ==
    /\ pc = "start"
    /\ call' = "create_sample_dicts"
    /\ IF DOMAIN MergedDict(normal_dict, depressed_dict) = {}
       THEN /\ pc' = "raised"
            /\ error' = "ValueError"
            /\ UNCHANGED <<n_samples, npz_file_dir>>
       ELSE LET n == DetermineNumCrops(depressed_dict, normal_dict, crop_width)
                dep_errors == ClassErrors(depressed_dict, n, crop_width)
                norm_errors == ClassErrors(normal_dict, n, crop_width)
            IN /\ n_samples' = n
               /\ IF dep_errors # {}
                  THEN /\ pc' = "raised"
                       /\ error' \in dep_errors
                       /\ UNCHANGED npz_file_dir
                  ELSE IF norm_errors # {}
                  THEN /\ pc' = "raised"
                       /\ error' \in norm_errors
                       /\ UNCHANGED npz_file_dir
                  ELSE /\ pc' = "created"
                       /\ UNCHANGED error
                       /\ \E depressed_samples \in
                                BuildClassSampleDict(depressed_dict, n, crop_width),
                             normal_samples \in
                                BuildClassSampleDict(normal_dict, n, crop_width) :
                            npz_file_dir' = SaveSamples(npz_file_dir,
                                               depressed_samples, normal_samples)
    /\ UNCHANGED <<corpus_vars, sample_vars, split_vars, process_vars,
                   num_samples_from_clips>>

\* rand_samp_train_test_split(npz_file_dir)
dep_samps == {f \in ListDir(npz_file_dir) : StartsWith(f, "D")}
norm_samps == {f \in ListDir(npz_file_dir) : StartsWith(f, "N")}
max_samples == Min(Cardinality(dep_samps), Cardinality(norm_samps))

\* numpy's generator is seeded at import: a process with the seed of the first
\* one, making the same two calls on the same arguments, draws what it drew.
SeededDraw(dsel, nsel) ==
    (run = 2 /\ np_seed = first_run.seed) => <<dsel, nsel>> = first_run.choice

RandSampTrainTestSplit ==
    /\ pc = "created"
    /\ call' = "rand_samp_train_test_split"
    /\ \E sel \in Choice(dep_samps, max_samples)
                    \X Choice(norm_samps, max_samples) :
         LET dsel == sel[1]
             nsel == sel[2]
             num_test_samples == NumTestSamples(Len(dsel))
             trf == TrainPart(dsel, num_test_samples)
                      \o TrainPart(nsel, num_test_samples)
             tef == TestPart(dsel, num_test_samples)
                      \o TestPart(nsel, num_test_samples)
             trs == LoadAll(npz_file_dir, trf)
             tes == LoadAll(npz_file_dir, tef)
         IN /\ SeededDraw(dsel, nsel)
            /\ dep_select_samps' = dsel
            /\ norm_select_samps' = nsel
            /\ train_files' = trf
            /\ test_files' = tef
            /\ train_samples' = trs
            /\ train_labels' = Labels(trs)
            /\ test_samples' = tes
            /\ test_labels' = Labels(tes)
    /\ pc' = "returned"
    /\ UNCHANGED <<corpus_vars, sample_vars, process_vars, n_samples,
                   num_samples_from_clips, npz_file_dir, error>>

\* The four arrays the script writes, in the order it writes them.
Outputs == <<train_samples, train_labels, test_samples, test_labels>>

\* __main__: the four np.savez calls after the split, into the same directory
\* ("train_samples.npz" is <<"t", 1>>, "train_labels.npz" <<"t", 2>>,
\* "test_samples.npz" <<"t", 3>>, "test_labels.npz" <<"t", 4>>).
SaveOutputs ==
    /\ pc = "returned"
    /\ pc' = "saved"
    /\ npz_file_dir' =
         [f \in (DOMAIN npz_file_dir) \cup {<<"t", k>> : k \in 1..4} |->
             IF f[1] = "t" THEN <<Outputs[f[2]]>> ELSE npz_file_dir[f]]
    /\ UNCHANGED <<corpus_vars, sample_vars, split_vars, process_vars,
                   n_samples, num_samples_from_clips, call, error>>

\* The script is run again on the same corpus: a new process, whose import
\* seeds numpy's generator again (Python's random module is not seeded).
RunAgain ==
    /\ pc = "saved"
    /\ run = 1
    /\ first_run' = [seed |-> np_seed,
                     choice |-> <<dep_select_samps, norm_select_samps>>,
                     out |-> Outputs]
    /\ run' = 2
    /\ np_seed' = Seed
    /\ pc' = "start"
    /\ call' = "none"
    /\ n_samples' = 0
    /\ dep_select_samps' = <<>>
    /\ norm_select_samps' = <<>>
    /\ train_files' = <<>>
    /\ test_files' = <<>>
    /\ train_samples' = <<>>
    /\ train_labels' = <<>>
    /\ test_samples' = <<>>
    /\ test_labels' = <<>>
    /\ UNCHANGED <<corpus_vars, sample_vars, num_samples_from_clips,
                   npz_file_dir, error>>

\* ----------------------------------------------------------- specifications
NextSplit == RandSampTrainTestSplit

SpecSplit == InitSplit /\ [][NextSplit]_vars

NextSample == CallGetRandomSamples

SpecSample == InitSample /\ [][NextSample]_vars

NextCrops == CallDetermineNumCrops \/ CreateSampleDicts

SpecCrops == InitCrops /\ [][NextCrops]_vars

NextRepro ==
    CreateSampleDicts \/ RandSampTrainTestSplit \/ SaveOutputs \/ RunAgain

SpecRepro == InitRepro /\ [][NextRepro]_vars

\* ------------------------------------------------------------------ claims
\* Positions of a list of file names whose name starts with the prefix.
CountPrefix(files, prefix) ==
    Cardinality({i \in 1..Len(files) : StartsWith(files[i], prefix)})

\* Positions of a label list holding the value.
CountOf(labels, v) == Cardinality({i \in 1..Len(labels) : labels[i] = v})

\* The artifact an entry of a given directory was loaded from: entry j of
\* file f is <<f, j>>.
Origin(sample) == sample[1][1]

\* C1: with max_samples = min(D, N) and num_test = floor(max_samples * 0.2),
\* the train partition holds max_samples - num_test selected participants of
\* each class and the test partition num_test of each class, also when
\* max_samples is below 5 and num_test is 0.
C1_SplitSizes ==
    pc = "returned" =>
        LET num_test == (max_samples * 2) \div 10
        IN /\ CountPrefix(train_files, "D") = max_samples - num_test
           /\ CountPrefix(train_files, "N") = max_samples - num_test
           /\ CountPrefix(test_files, "D") = num_test
           /\ CountPrefix(test_files, "N") = num_test

\* C2: in the returned train_labels the number of labels 1 equals the number
\* of labels 0, and likewise in the returned test_labels.
C2_LabelBalance ==
    pc = "returned" =>
        /\ CountOf(train_labels, 1) = CountOf(train_labels, 0)
        /\ CountOf(test_labels, 1) = CountOf(test_labels, 0)

\* The split returned both partitions non-empty, the train partition holding
\* an odd number of samples.
C2_Witness ==
    /\ pc = "returned"
    /\ Len(train_samples) % 2 = 1
    /\ train_labels # <<>>
    /\ test_labels # <<>>

\* C3: no artifact is loaded into both partitions: the files of the train
\* loops and the files of the test loops are disjoint, for each class.
C3_Disjoint ==
    pc = "returned" =>
        /\ Range(train_files) \cap Range(test_files) = {}
        /\ Len(train_files) + Len(test_files)
             = Cardinality(Range(train_files) \cup Range(test_files))

\* The split returned with participants of both classes in both partitions.
C3_Witness ==
    /\ pc = "returned"
    /\ CountPrefix(train_files, "D") > 0
    /\ CountPrefix(train_files, "N") > 0
    /\ CountPrefix(test_files, "D") > 0
    /\ CountPrefix(test_files, "N") > 0

\* Every D- and N-prefixed artifact of the directory holds the same number
\* of entries.
UniformDir ==
    LET artifacts == dep_samps \cup norm_samps
    IN \A f \in artifacts :
          Len(npz_file_dir[f]) = Len(npz_file_dir[CHOOSE g \in artifacts : TRUE])

Aligned(ss, labels) ==
    /\ Len(labels) = Len(ss)
    /\ \A i \in 1..Len(ss) :
          /\ labels[i] = 1 <=> Origin(ss[i]) = "D"
          /\ labels[i] = 0 <=> Origin(ss[i]) = "N"

\* C4: when every artifact holds the same number of crops, each returned label
\* list is as long as its sample list, and label i is 1 exactly when sample i
\* was loaded from a D-prefixed artifact and 0 exactly when from an N-prefixed.
C4_LabelsAligned ==
    (pc = "returned" /\ UniformDir) =>
        /\ Aligned(train_samples, train_labels)
        /\ Aligned(test_samples, test_labels)

\* The split of a uniform directory returned samples in both partitions.
C4_Witness ==
    /\ pc = "returned"
    /\ UniformDir
    /\ train_samples # <<>>
    /\ test_samples # <<>>
    /\ Len(test_samples) >= 4

\* No participant id is a key of both class dictionaries.
DisjointIds == (DOMAIN depressed_dict) \cap (DOMAIN normal_dict) = {}

\* The time lengths of all participants of both dictionaries.
AllLengths ==
    {Len(depressed_dict[id]) : id \in DOMAIN depressed_dict}
        \cup {Len(normal_dict[id]) : id \in DOMAIN normal_dict}

MinLength == CHOOSE m \in AllLengths : \A l \in AllLengths : m <= l

\* C5: for dictionaries with disjoint ids determine_num_crops returns
\* floor(m / crop_width), m the minimum time length over both dictionaries,
\* and what it returns is at least 1: it never returns 0.
C5_ReturnsAtLeastOne ==
    (call = "determine_num_crops" /\ pc = "determined" /\ DisjointIds) =>
        /\ num_samples_from_clips = MinLength \div crop_width
        /\ num_samples_from_clips >= 1

\* The columns [r + k*w, r + (k+1)*w).
Segment(r, k, w) == [i \in 1..w |-> r + k * w + i - 1]

\* Exactly n_samples segments were returned, each crop_width wide and equal to
\* the columns [r + k*crop_width, r + (k+1)*crop_width) for a k >= 0, no two
\* with the same k, none holding one of the leading r columns.
SegmentsOk ==
    LET r == Len(matrix) % crop_width
    IN /\ Len(samples) = n_samples
       /\ \A i \in 1..Len(samples) :
             /\ Len(samples[i]) = crop_width
             /\ \E k \in 0..Len(matrix) : samples[i] = Segment(r, k, crop_width)
             /\ \A c \in Range(samples[i]) : c >= r
       /\ \A i \in 1..Len(samples), j \in 1..Len(samples) :
             i # j => samples[i] # samples[j]

\* C6 as stated: for every matrix of time length L and every
\* n_samples <= floor(L / crop_width), get_random_samples returns such segments.
C6_EveryMatrix ==
    (call = "get_random_samples" /\ n_samples <= Len(matrix) \div crop_width) =>
        (pc = "sampled" /\ SegmentsOk)

\* C6 amended: for every matrix of time length L >= crop_width and every
\* n_samples with 0 <= n_samples <= floor(L / crop_width), get_random_samples
\* returns exactly n_samples segments, each crop_width wide and covering the
\* columns [r + k*crop_width, r + (k+1)*crop_width) for some k >= 0 with
\* r = L mod crop_width, no two with the same k, none holding a discarded
\* leading column.
C6_MatrixOfACropOrMore ==
    (/\ call = "get_random_samples"
     /\ Len(matrix) >= crop_width
     /\ 0 <= n_samples
     /\ n_samples <= Len(matrix) \div crop_width) =>
        (pc = "sampled" /\ SegmentsOk)

\* Two or more segments were returned from a matrix with a discarded prefix.
C6_Witness ==
    /\ call = "get_random_samples"
    /\ pc = "sampled"
    /\ Len(samples) >= 2
    /\ Len(matrix) % crop_width > 0

\* C7: when a class has no persisted artifact, rand_samp_train_test_split
\* fails with EmptyClassError and returns no splits.
C7_EmptyClassFails ==
    (call = "rand_samp_train_test_split" /\ max_samples = 0) =>
        (pc = "raised" /\ error = "EmptyClassError")

\* C8: when an id is a key of both dictionaries, determine_num_crops rejects
\* the input with IdCollisionError.
C8_CollisionRejected ==
    (call = "determine_num_crops" /\ ~DisjointIds) =>
        (pc = "raised" /\ error = "IdCollisionError")

\* C9: a second run of the script with the same seed on the same corpus
\* writes the train/test outputs the first run wrote.
C9_SameSeedSameOutputs ==
    (run = 2 /\ pc = "saved" /\ np_seed = first_run.seed) =>
        Outputs = first_run.out

\* C10: in create_sample_dicts on dictionaries with disjoint ids, n_samples
\* exceeds floor(L_p / crop_width) for no participant p, and every participant
\* of both classes gets exactly n_samples crops.
C10_EveryParticipantGetsCrops ==
    (call = "create_sample_dicts" /\ DisjointIds /\ AllLengths # {}) =>
        /\ \A l \in AllLengths : n_samples <= l \div crop_width
        /\ pc = "created"
        /\ \A id \in DOMAIN depressed_dict :
              Len(npz_file_dir[<<"D", id>>]) = n_samples
        /\ \A id \in DOMAIN normal_dict :
              Len(npz_file_dir[<<"N", id>>]) = n_samples
====
